---- MODULE Spec2Model ----
(***************************************************************************)
(* Model of fastapi-reqid: the request-id context store (context.py), the  *)
(* RequestIDMiddleware (middleware.py) and the three client injection      *)
(* decorators (decorators.py).                                             *)
(*                                                                         *)
(* A Python str is a sequence of one-character strings.  None and the      *)
(* ContextVar's "no value" marker are one-element sequences whose element  *)
(* is longer than one character, so they differ from every str.            *)
(***************************************************************************)
EXTENDS Integers, Sequences, FiniteSets, TLC

VARIABLES
    header_name,   \* RequestIDMiddleware.header_name
    generator,     \* RequestIDMiddleware.generator
    installed,     \* the client libraries that can be imported
    prior,         \* binding of request_id_context in the context the flows start from
    uuidCount,     \* number of uuid4 values drawn so far
    ctx,           \* request_id_context: Context (one per flow) -> binding
    pc,            \* where each flow stands: "idle", "call_next" (dispatch awaits
                   \* call_next), "in_body" (a wrapper awaits or runs func), "closing"
                   \* (the wrapper's finally), "next_done", "done" (dispatch ended)
    mw,            \* whether the flow runs under RequestIDMiddleware.dispatch
    inbound,       \* request.headers
    request_id,    \* dispatch's local request_id
    token,         \* dispatch's local token
    genCalls,      \* number of calls of self.generator made for the request
    state,         \* request.state
    response,      \* headers of the response
    seen,          \* what get_request_id() returned inside the handler body
    helper,        \* the decorator wrapping the handler ("none": undecorated)
    funcKind,      \* "sync" (def) or "async" (async def) handler
    call,          \* the arguments the handler is called with
    client,        \* the client / session the wrapper constructed
    bodyRan,       \* the handler body ran to its end, and whether the client was open then
    bout,          \* how the handler body ended
    wout,          \* how the next stage (the wrapper, or the bare handler) ended
    dout,          \* how dispatch ended
    tokens,        \* tokens handed out by set_request_id to application code
    last           \* the last context operation of application code

vars == <<header_name, generator, installed, prior, uuidCount, ctx, pc, mw, inbound,
          request_id, token, genCalls, state, response, seen, helper, funcKind, call,
          client, bodyRan, bout, wout, dout, tokens, last>>

-----------------------------------------------------------------------------
(* Bounds *)

NumRequests == 2
MaxTokens == 3

Requests == 1..NumRequests

-----------------------------------------------------------------------------
(* Strings *)

None == <<"None">>
MISSING == <<"MISSING">>

Whitespace == {" ", "\t"}

\* Values an inbound header (or a binding made by application code) may hold.
HeaderValues ==
    { <<>>, <<"\t", " ">>, <<" ", "a", " ">> }

RECURSIVE LStrip(_)
LStrip(s) ==
    IF s = <<>> THEN <<>>
    ELSE IF Head(s) \in Whitespace THEN LStrip(Tail(s)) ELSE s

RECURSIVE RStrip(_)
RStrip(s) ==
    IF s = <<>> THEN <<>>
    ELSE IF s[Len(s)] \in Whitespace THEN RStrip(SubSeq(s, 1, Len(s) - 1)) ELSE s

\* str.strip()
Strip(s) == RStrip(LStrip(s))

\* bool(x) for x a str or None
Truthy(x) == x # None /\ x # <<>>

-----------------------------------------------------------------------------
(* context.py *)

\* A plain module-level variable instead of a ContextVar: one slot for all flows.
CurrentContext_Global(flow) == 1

\* The Context a flow runs in: every request is handled in a context of its own.
CurrentContext(flow) == flow

\* ContextVar.get() with default=None
ContextGet(binding) == IF binding = MISSING THEN None ELSE binding

get_request_id(flow) == ContextGet(ctx[CurrentContext(flow)])

NoToken == [old |-> MISSING, used |-> TRUE, made |-> FALSE]

\* set_request_id: the new binding, and the token that remembers the old one
set_request_id_binding(value) == value
set_request_id_token(binding) == [old |-> binding, used |-> FALSE, made |-> TRUE]

\* reset that forgets the binding instead of restoring the token's
ContextReset_Clear(binding, tok) == MISSING

\* request_id_context.reset(token)
ContextReset(binding, tok) == tok.old

-----------------------------------------------------------------------------
(* middleware.py *)

HeaderNames == {"X-Request-ID", "X-Correlation-ID"}

NoHeaders == [n \in HeaderNames |-> None]

\* The header sets of an inbound request: no header, the configured header with any
\* value, or only a header of another name.
InboundHeaders ==
    {NoHeaders} \cup
    { [NoHeaders EXCEPT ![header_name] = v] : v \in HeaderValues } \cup
    { [NoHeaders EXCEPT ![n] = <<"a">>] : n \in HeaderNames \ {header_name} }

\* The header sets of the response as the handler leaves it: with the configured
\* header set by the handler, or not.
HandlerHeaders == {NoHeaders, [NoHeaders EXCEPT ![header_name] = <<"h">>]}

Digits == <<"0", "1", "2", "3", "4", "5", "6", "7", "8", "9">>

\* a uuid4 that repeats: every call returns the same value
Uuid4_Repeating(n) == <<"u", Digits[1]>>

\* str(uuid.uuid4()): the n-th value drawn, distinct from every other one
Uuid4(n) == <<"u", Digits[n + 1]>>

DefaultGenerator == [kind |-> "uuid4", value |-> <<>>]
NoGenerator == [kind |-> "none", value |-> <<>>]

\* The generator argument of __init__: None, or a function returning a str.
GeneratorArgs ==
    {NoGenerator} \cup
    { [kind |-> "const", value |-> v] : v \in {<<>>, <<"g">>} }

\* self.generator = generator or self._default_generator
InitGenerator(arg) == IF arg.kind = "none" THEN DefaultGenerator ELSE arg

\* self.generator()
GeneratorCall(g, n) == IF g.kind = "uuid4" THEN Uuid4(n) ELSE g.value

\* the test without strip(): only a missing or empty header counts as blank
IsBlank_NoStrip(h) == ~Truthy(h)

\* not request_id or not request_id.strip()
IsBlank(h) == ~Truthy(h) \/ ~Truthy(Strip(h))

\* a response header that is set only when the handler left it unset
SetHeader_IfUnset(headers, name, value) ==
    IF headers[name] = None THEN [headers EXCEPT ![name] = value] ELSE headers

\* response.headers[self.header_name] = request_id
SetHeader(headers, name, value) == [headers EXCEPT ![name] = value]

\* a reset that runs on the normal path only
FinallyReset_OnReturnOnly(binding, tok, kind) ==
    IF kind = "return" THEN ContextReset(binding, tok) ELSE binding

\* finally: request_id_context.reset(token)
FinallyReset(binding, tok, kind) == ContextReset(binding, tok)

NoOutcome == [kind |-> "none", what |-> "none"]
Returned(what) == [kind |-> "return", what |-> what]
Raised(what) == [kind |-> "raise", what |-> what]

NoState ==
    [request_id |-> None, httpx_client |-> FALSE, aiohttp_session |-> FALSE,
     requests_session |-> FALSE]

NoClient == [lib |-> "none", class |-> "none", xrid |-> None, open |-> FALSE]

NoCall == [kw |-> FALSE, pos |-> <<>>]

NoBody == [ran |-> FALSE, open |-> FALSE]

\* dispatch, lines 29-37: up to the await of call_next
Dispatch(r) ==
    /\ pc[r] = "idle"
    /\ \E h \in InboundHeaders :
        LET got == h[header_name]
            blank == IsBlank(got)
            rid == IF blank THEN GeneratorCall(generator, uuidCount) ELSE got
            c == CurrentContext(r)
        IN  /\ inbound' = [inbound EXCEPT ![r] = h]
            /\ genCalls' = [genCalls EXCEPT ![r] = IF blank THEN 1 ELSE 0]
            /\ uuidCount' = IF blank /\ generator.kind = "uuid4"
                              THEN uuidCount + 1 ELSE uuidCount
            /\ request_id' = [request_id EXCEPT ![r] = rid]
            /\ token' = [token EXCEPT ![r] = set_request_id_token(ctx[c])]
            /\ ctx' = [ctx EXCEPT ![c] = set_request_id_binding(rid)]
            /\ state' = [state EXCEPT ![r].request_id = rid]
    /\ mw' = [mw EXCEPT ![r] = TRUE]
    /\ pc' = [pc EXCEPT ![r] = "call_next"]
    /\ UNCHANGED <<header_name, generator, installed, prior, response, seen, helper,
                   funcKind, call, client, bodyRan, bout, wout, dout, tokens, last>>

\* dispatch, lines 37-41: call_next has ended; the response header, the finally
DispatchResume(r) ==
    /\ pc[r] = "next_done"
    /\ mw[r]
    /\ LET c == CurrentContext(r)
       IN  /\ ctx' = [ctx EXCEPT ![c] = FinallyReset(ctx[c], token[r], wout[r].kind)]
           /\ token' = [token EXCEPT ![r].used = TRUE]
    /\ IF wout[r].kind = "return"
         THEN /\ response' = [response EXCEPT
                                ![r] = SetHeader(response[r], header_name, request_id[r])]
              /\ dout' = [dout EXCEPT ![r] = Returned("response")]
         ELSE /\ dout' = [dout EXCEPT ![r] = wout[r]]
              /\ UNCHANGED response
    /\ pc' = [pc EXCEPT ![r] = "done"]
    /\ UNCHANGED <<header_name, generator, installed, prior, uuidCount, mw, inbound,
                   request_id, genCalls, state, seen, helper, funcKind, call, client,
                   bodyRan, bout, wout, tokens, last>>

-----------------------------------------------------------------------------
(* decorators.py *)

Helpers == {"httpx", "aiohttp", "requests"}
FuncKinds == {"sync", "async"}

\* The ways a handler is called: request by keyword, request first, request after
\* an argument without `state`, no request at all.
Calls ==
    { [kw |-> TRUE, pos |-> <<>>],
      [kw |-> FALSE, pos |-> <<"request">>],
      [kw |-> FALSE, pos |-> <<"plain", "request">>],
      [kw |-> FALSE, pos |-> <<"plain">>] }

\* an import that is never seen to fail
CanImport_Always(lib) == TRUE

\* try: import <lib>  except ImportError: raise ImportError(...)
CanImport(lib) == lib \in installed

\* hasattr(arg, "state")
HasState(arg) == arg = "request"

RECURSIVE FirstWithState(_)
FirstWithState(args) ==
    IF args = <<>> THEN FALSE
    ELSE IF HasState(Head(args)) THEN TRUE ELSE FirstWithState(Tail(args))

\* request = kwargs.get("request"), else the first positional argument with `state`;
\* TRUE when a request was found
LocateRequest(c) == IF c.kw THEN TRUE ELSE FirstWithState(c.pos)

\* every decorator returning its synchronous wrapper
WrapperShape_AlwaysSync(h, kind) == "sync"

\* The wrapper a decorator returns: httpx picks by iscoroutinefunction(func),
\* aiohttp's is async, requests' is sync.
WrapperShape(h, kind) ==
    IF h = "httpx" THEN kind
    ELSE IF h = "aiohttp" THEN "async" ELSE "sync"

\* the header is left out of the client
ClientHeader_Never(rid) == None

\* headers = {"X-Request-ID": request_id} if request_id else {}: the value of the
\* client's X-Request-ID header, None when it has none
ClientHeader(rid) == IF Truthy(rid) THEN rid ELSE None

ClientClass(h, shape) ==
    IF h = "httpx" THEN (IF shape = "async" THEN "AsyncClient" ELSE "Client")
    ELSE IF h = "aiohttp" THEN "ClientSession" ELSE "Session"

NewClient(h, shape, rid) ==
    [lib |-> h, class |-> ClientClass(h, shape), xrid |-> ClientHeader(rid),
     open |-> TRUE]

\* request.state.httpx_client / aiohttp_session / requests_session = client
Attach(st, h) ==
    IF h = "httpx" THEN [st EXCEPT !.httpx_client = TRUE]
    ELSE IF h = "aiohttp" THEN [st EXCEPT !.aiohttp_session = TRUE]
    ELSE [st EXCEPT !.requests_session = TRUE]

\* a close that is skipped when the handler failed
CloseClient_OnReturnOnly(c, kind) ==
    IF kind = "return" THEN [c EXCEPT !.open = FALSE] ELSE c

\* finally: client.close() / await client.aclose() / await session.close()
CloseClient(c, kind) == [c EXCEPT !.open = FALSE]

\* How a handler body may end: it returns, it raises, or (suspended at an await)
\* it is cancelled.
BodyOutcomes(kind) ==
    {Returned("result"), Raised("HandlerError")} \cup
    (IF kind = "async" THEN {Raised("CancelledError")} ELSE {})

\* return func(...) / return await func(...): what the wrapper hands to its caller.
\* Awaiting what a synchronous handler returned raises TypeError.
WrapperResult(shape, kind, o) ==
    IF o.kind = "return" /\ shape = "async" /\ kind = "sync"
      THEN Raised("TypeError") ELSE o

\* A decorated handler is called (under dispatch's call_next, or directly): the
\* wrapper up to its call of func.
CallWrapper(r) ==
    /\ pc[r] \in {"idle", "call_next"}
    /\ \E h \in Helpers, k \in FuncKinds, a \in Calls :
        LET shape == WrapperShape(h, k)
        IN  /\ helper' = [helper EXCEPT ![r] = h]
            /\ funcKind' = [funcKind EXCEPT ![r] = k]
            /\ call' = [call EXCEPT ![r] = a]
            /\ IF ~CanImport(h)
                 THEN /\ wout' = [wout EXCEPT ![r] = Raised("ImportError")]
                      /\ pc' = [pc EXCEPT ![r] = "next_done"]
                      /\ UNCHANGED <<client, state, bout>>
                 ELSE /\ client' = [client EXCEPT
                                      ![r] = NewClient(h, shape, get_request_id(r))]
                      /\ state' = [state EXCEPT
                                     ![r] = IF LocateRequest(a)
                                              THEN Attach(state[r], h) ELSE state[r]]
                      /\ IF shape = "sync" /\ k = "async"
                           \* func(...) only makes the coroutine object
                           THEN /\ bout' = [bout EXCEPT ![r] = Returned("coroutine")]
                                /\ pc' = [pc EXCEPT ![r] = "closing"]
                           ELSE /\ pc' = [pc EXCEPT ![r] = "in_body"]
                                /\ UNCHANGED bout
                      /\ UNCHANGED wout
    /\ UNCHANGED <<header_name, generator, installed, prior, uuidCount, ctx, mw,
                   inbound, request_id, token, genCalls, response, seen, bodyRan, dout,
                   tokens, last>>

\* The handler body (of the undecorated handler call_next reached, or of the one a
\* wrapper called) runs to its end; it reads get_request_id() on the way.
BodyFinish(r) ==
    /\ pc[r] \in {"call_next", "in_body"}
    /\ seen' = [seen EXCEPT ![r] = get_request_id(r)]
    /\ bodyRan' = [bodyRan EXCEPT ![r] = [ran |-> TRUE, open |-> client[r].open]]
    /\ \E o \in BodyOutcomes(funcKind[r]) :
        /\ bout' = [bout EXCEPT ![r] = o]
        /\ IF helper[r] = "none"
             THEN /\ wout' = [wout EXCEPT ![r] = o]
                  /\ pc' = [pc EXCEPT ![r] = "next_done"]
             ELSE /\ pc' = [pc EXCEPT ![r] = "closing"]
                  /\ UNCHANGED wout
        /\ IF mw[r] /\ o.kind = "return"
             THEN \E hs \in HandlerHeaders : response' = [response EXCEPT ![r] = hs]
             ELSE UNCHANGED response
    /\ UNCHANGED <<header_name, generator, installed, prior, uuidCount, ctx, mw,
                   inbound, request_id, token, genCalls, state, helper, funcKind, call,
                   client, dout, tokens, last>>

\* The wrapper's finally and its return: the client is closed, then the handler's
\* result or failure goes to the caller.
WrapperExit(r) ==
    /\ pc[r] = "closing"
    /\ client' = [client EXCEPT ![r] = CloseClient(client[r], bout[r].kind)]
    /\ wout' = [wout EXCEPT
                  ![r] = WrapperResult(WrapperShape(helper[r], funcKind[r]),
                                       funcKind[r], bout[r])]
    /\ pc' = [pc EXCEPT ![r] = "next_done"]
    /\ UNCHANGED <<header_name, generator, installed, prior, uuidCount, ctx, mw,
                   inbound, request_id, token, genCalls, state, response, seen, helper,
                   funcKind, call, bodyRan, bout, dout, tokens, last>>

-----------------------------------------------------------------------------
(* Application code using the context accessors in one flow *)

AppFlow == 1

NoOp == [op |-> "none", value |-> None, before |-> None, err |-> FALSE,
         got |-> MISSING, nested |-> TRUE]

\* token = set_request_id(v)
AppSet ==
    /\ Len(tokens) < MaxTokens
    /\ \E v \in HeaderValues :
        LET c == CurrentContext(AppFlow)
        IN  /\ tokens' = Append(tokens,
                                [tok |-> set_request_id_token(ctx[c]),
                                 before |-> get_request_id(AppFlow)])
            /\ ctx' = [ctx EXCEPT ![c] = set_request_id_binding(v)]
            /\ last' = [op |-> "set", value |-> v, before |-> None, err |-> FALSE,
                        got |-> MISSING, nested |-> last.nested]
    /\ UNCHANGED <<header_name, generator, installed, prior, uuidCount, pc, mw, inbound,
                   request_id, token, genCalls, state, response, seen, helper, funcKind,
                   call, client, bodyRan, bout, wout, dout>>

\* The tokens not yet used by a reset.
Live == { i \in 1..Len(tokens) : ~tokens[i].tok.used }

\* request_id_context.reset(token): a used token raises RuntimeError
AppReset ==
    /\ \E i \in 1..Len(tokens) :
        LET c == CurrentContext(AppFlow)
        IN  IF tokens[i].tok.used
              THEN /\ last' = [op |-> "reset", value |-> None, before |-> None,
                               err |-> TRUE, got |-> MISSING, nested |-> last.nested]
                   /\ UNCHANGED <<ctx, tokens>>
              ELSE /\ ctx' = [ctx EXCEPT ![c] = ContextReset(ctx[c], tokens[i].tok)]
                   /\ tokens' = [tokens EXCEPT ![i].tok.used = TRUE]
                   /\ last' = [op |-> "reset", value |-> None,
                               before |-> tokens[i].before, err |-> FALSE,
                               got |-> MISSING,
                               nested |-> last.nested /\ \A j \in Live : j <= i]
    /\ UNCHANGED <<header_name, generator, installed, prior, uuidCount, pc, mw, inbound,
                   request_id, token, genCalls, state, response, seen, helper, funcKind,
                   call, client, bodyRan, bout, wout, dout>>

\* get_request_id()
AppGet ==
    /\ last.got = MISSING
    /\ last' = [last EXCEPT !.got = get_request_id(AppFlow)]
    /\ UNCHANGED <<header_name, generator, installed, prior, uuidCount, ctx, pc, mw,
                   inbound, request_id, token, genCalls, state, response, seen, helper,
                   funcKind, call, client, bodyRan, bout, wout, dout, tokens>>

-----------------------------------------------------------------------------
(* Specifications *)

Libraries == Helpers

InitFlows ==
    /\ uuidCount = 0
    /\ ctx = [f \in Requests |-> prior]
    /\ pc = [r \in Requests |-> "idle"]
    /\ mw = [r \in Requests |-> FALSE]
    /\ inbound = [r \in Requests |-> NoHeaders]
    /\ request_id = [r \in Requests |-> None]
    /\ token = [r \in Requests |-> NoToken]
    /\ genCalls = [r \in Requests |-> 0]
    /\ state = [r \in Requests |-> NoState]
    /\ response = [r \in Requests |-> NoHeaders]
    /\ seen = [r \in Requests |-> MISSING]
    /\ helper = [r \in Requests |-> "none"]
    /\ funcKind = [r \in Requests |-> "async"]
    /\ call = [r \in Requests |-> NoCall]
    /\ client = [r \in Requests |-> NoClient]
    /\ bodyRan = [r \in Requests |-> NoBody]
    /\ bout = [r \in Requests |-> NoOutcome]
    /\ wout = [r \in Requests |-> NoOutcome]
    /\ dout = [r \in Requests |-> NoOutcome]
    /\ tokens = <<>>
    /\ last = NoOp

\* The middleware as constructed (__init__), every library installed, and the flows
\* before their requests arrive.
Init ==
    /\ header_name \in HeaderNames
    /\ \E g \in GeneratorArgs : generator = InitGenerator(g)
    /\ installed = Libraries
    /\ prior \in {MISSING, <<"p">>}
    /\ InitFlows

\* Requests handled concurrently by undecorated handlers.
Next ==
    \E r \in Requests :
        \/ Dispatch(r)
        \/ BodyFinish(r)
        \/ DispatchResume(r)

Spec == Init /\ [][Next]_vars

\* One flow, its handler decorated, with any set of libraries installed.
InitHelper ==
    /\ header_name \in HeaderNames
    /\ \E g \in GeneratorArgs : generator = InitGenerator(g)
    /\ installed \in SUBSET Libraries
    /\ prior \in {MISSING, <<"p">>}
    /\ InitFlows

NextHelper ==
    \/ Dispatch(AppFlow)
    \/ CallWrapper(AppFlow)
    \/ BodyFinish(AppFlow)
    \/ WrapperExit(AppFlow)
    \/ DispatchResume(AppFlow)

SpecHelper == InitHelper /\ [][NextHelper]_vars

\* Application code binding, resetting and reading the identifier in one flow that
\* starts unbound.
InitContext ==
    /\ header_name = "X-Request-ID"
    /\ generator = DefaultGenerator
    /\ installed = Libraries
    /\ prior = MISSING
    /\ InitFlows

NextContext == AppSet \/ AppReset \/ AppGet

SpecContext == InitContext /\ [][NextContext]_vars

-----------------------------------------------------------------------------
(* Claims *)

\* A str with a character that is not whitespace.
NonBlank(v) == v # None /\ \E i \in 1..Len(v) : v[i] \notin Whitespace

\* The inbound header is there, and empty or whitespace only.
PresentBlank(v) == v # None /\ \A i \in 1..Len(v) : v[i] \in Whitespace

InboundId(r) == inbound[r][header_name]

Completed(r) == pc[r] = "done" /\ dout[r].kind = "return"

\* C1: a request with a non-blank inbound identifier header whose handling completes
\* normally carries exactly that value, untrimmed, in the response header of the
\* configured name, whatever the handler put there.
C1_InboundEchoedVerbatim ==
    \A r \in Requests :
        (Completed(r) /\ NonBlank(InboundId(r)))
            => response[r][header_name] = InboundId(r)

C1_Witness ==
    \E r \in Requests :
        /\ Completed(r)
        /\ InboundId(r) = <<" ", "a", " ">>
        /\ response[r][header_name] = <<" ", "a", " ">>

InHandler(r) == mw[r] /\ pc[r] \in {"call_next", "in_body", "next_done"}

\* C2: in the flow of request r, from the binding to the reset, get_request_id()
\* returns the identifier dispatch resolved for r, and so does every read the handler
\* body made, whatever the other requests did meanwhile.
C2_FlowsIsolated ==
    \A r \in Requests :
        /\ InHandler(r) => get_request_id(r) = request_id[r]
        /\ (mw[r] /\ seen[r] # MISSING) => seen[r] = request_id[r]

C2_Witness ==
    \E r, q \in Requests :
        /\ r # q
        /\ pc[r] = "next_done" /\ seen[r] = request_id[r]
        /\ pc[q] = "call_next"
        /\ request_id[q] # request_id[r]

\* C3: once dispatch has ended, normally or with the failure or cancellation of the
\* next stage, its token has been used for the reset and the flow reads the value
\* that was current before dispatch started; a failure of the next stage is the one
\* dispatch ends with.
C3_BindingRevertedOnEveryExit ==
    \A r \in Requests :
        dout[r].kind # "none" =>
            /\ token[r].made /\ token[r].used
            /\ ctx[r] = prior
            /\ get_request_id(r) = ContextGet(prior)
            /\ wout[r].kind = "raise" => dout[r] = wout[r]

C3_Witness ==
    \E r, q \in Requests :
        /\ dout[r] = Raised("CancelledError")
        /\ dout[q] = Raised("HandlerError")
        /\ prior = <<"p">>

NoInboundId(r) == pc[r] # "idle" /\ mw[r] /\ InboundId(r) = None

\* C4 as stated: with no inbound identifier header and any configured generator the
\* response header is non-blank, and two such requests never carry the same value.
\* A generator may return a blank or a repeated string, which dispatch does not check.
C4_Original ==
    \A r \in Requests :
        (Completed(r) /\ NoInboundId(r)) =>
            /\ NonBlank(response[r][header_name])
            /\ generator.kind = "uuid4" =>
                 \A q \in Requests \ {r} :
                     NoInboundId(q) => request_id[q] # response[r][header_name]

GeneratorNonBlank == generator.kind = "uuid4" \/ NonBlank(generator.value)

\* C4 as amended: with no inbound identifier header the generator is called once and
\* the response header is its value; that value is non-blank when the generator
\* returns non-blank strings (as the default one does), and with the default,
\* collision-free generator no two such requests carry the same value.
C4_GeneratedHeader ==
    \A r \in Requests :
        (Completed(r) /\ NoInboundId(r)) =>
            /\ genCalls[r] = 1
            /\ generator.kind = "const" => response[r][header_name] = generator.value
            /\ GeneratorNonBlank => NonBlank(response[r][header_name])
            /\ generator.kind = "uuid4" =>
                 \A q \in Requests \ {r} :
                     NoInboundId(q) => request_id[q] # response[r][header_name]

C4_Witness ==
    \E r, q \in Requests :
        /\ r # q
        /\ generator.kind = "uuid4"
        /\ Completed(r) /\ NoInboundId(r)
        /\ Completed(q) /\ NoInboundId(q)
        /\ NonBlank(response[r][header_name])
        /\ response[q][header_name] # response[r][header_name]

\* What the generator has returned so far.
Generated ==
    IF generator.kind = "uuid4"
      THEN { <<"u", Digits[n]>> : n \in 1..uuidCount }
      ELSE {generator.value}

\* The identifier is what the request carries everywhere.
Carried(r) ==
    /\ state[r].request_id = request_id[r]
    /\ InHandler(r) => get_request_id(r) = request_id[r]
    /\ Completed(r) => response[r][header_name] = request_id[r]

\* C5: an inbound header that is present but empty or whitespace only is treated as
\* an absent one: the generator is called once and its result is the identifier in
\* the Context Store, on request.state.request_id and in the response header; with
\* a non-blank inbound header the generator is not called.
C5_BlankTreatedAsAbsent ==
    \A r \in Requests :
        (mw[r] /\ pc[r] # "idle") =>
            /\ (PresentBlank(InboundId(r)) \/ InboundId(r) = None) =>
                 /\ genCalls[r] = 1
                 /\ request_id[r] \in Generated
                 /\ Carried(r)
            /\ NonBlank(InboundId(r)) =>
                 /\ genCalls[r] = 0
                 /\ request_id[r] = InboundId(r)
                 /\ Carried(r)

C5_Witness ==
    \E r \in Requests :
        /\ Completed(r)
        /\ InboundId(r) = <<"\t", " ">>
        /\ genCalls[r] = 1
        /\ response[r][header_name] \in Generated

\* The wrapper of flow r called func and has ended.
WrapperEnded(r) ==
    helper[r] # "none" /\ wout[r].kind # "none" /\ bout[r].kind # "none"

\* C6 as stated: for each helper, when the handler raises the client is closed and
\* the caller gets the handler's failure; when it returns the client is closed and
\* the caller gets its result.  inject_aiohttp_requestid awaits what a synchronous
\* handler returned, and the caller gets a TypeError in place of the result.
C6_Original ==
    \A r \in Requests :
        WrapperEnded(r) => (~client[r].open /\ wout[r] = bout[r])

\* C6 as amended: for each helper, when the handler raises the client is closed and
\* the caller gets the handler's failure unchanged; when it returns the client is
\* closed and the caller gets its result untransformed, except that
\* inject_aiohttp_requestid around a synchronous handler ends with TypeError.
C6_ClosedAndPropagated ==
    \A r \in Requests :
        WrapperEnded(r) =>
            /\ ~client[r].open
            /\ client[r].lib = helper[r]
            /\ bout[r].kind = "raise" => wout[r] = bout[r]
            /\ bout[r].kind = "return" =>
                 IF helper[r] = "aiohttp" /\ funcKind[r] = "sync"
                   THEN wout[r] = Raised("TypeError")
                   ELSE wout[r] = bout[r]

C6_Witness ==
    \E r \in Requests :
        /\ WrapperEnded(r)
        /\ helper[r] = "requests"
        /\ bout[r] = Raised("HandlerError")
        /\ wout[r] = Raised("HandlerError")
        /\ client[r].class = "Session" /\ ~client[r].open

ClosedAgain(r) == client[r] # NoClient /\ ~client[r].open

BodyRanWhileOpen(r) == bodyRan[r].ran /\ bodyRan[r].open

PassesRequest(c) == c.kw \/ \E i \in 1..Len(c.pos) : c.pos[i] = "request"

\* The client of flow r is on request.state, under its library's name only.
Attached(r) ==
    /\ state[r].httpx_client = (helper[r] = "httpx")
    /\ state[r].aiohttp_session = (helper[r] = "aiohttp")
    /\ state[r].requests_session = (helper[r] = "requests")

NotAttached(r) ==
    ~state[r].httpx_client /\ ~state[r].aiohttp_session /\ ~state[r].requests_session

\* C10 as stated: under the middleware the constructed client carries X-Request-ID
\* equal to the identifier resolved for the request, and is on request.state under
\* its library's name when the body starts.  An identifier that is the empty string
\* (a generator may return one) gives a client without the header.
C10_Original ==
    \A r \in Requests :
        (client[r] # NoClient /\ mw[r]) =>
            /\ client[r].xrid = request_id[r]
            /\ PassesRequest(call[r]) => Attached(r)

\* C10 as amended: under the middleware the constructed client carries X-Request-ID
\* equal to the identifier resolved for the request when that identifier is not the
\* empty string, and no such header when it is; the client is on request.state under
\* its library's name before the body starts when a request is located, and on none
\* otherwise; with no identifier bound the client has no such header.
C10_ClientCarriesIdentifier ==
    \A r \in Requests :
        client[r] # NoClient =>
            /\ (mw[r] /\ request_id[r] # <<>>) => client[r].xrid = request_id[r]
            /\ (mw[r] /\ request_id[r] = <<>>) => client[r].xrid = None
            /\ (mw[r] /\ Completed(r)) =>
                 client[r].xrid \in {None, response[r][header_name]}
            /\ (~mw[r] /\ prior = MISSING) => client[r].xrid = None
            /\ (~mw[r] /\ prior # MISSING) => client[r].xrid = prior
            /\ IF PassesRequest(call[r]) THEN Attached(r) ELSE NotAttached(r)

C10_Witness ==
    \E r \in Requests :
        /\ helper[r] = "requests" /\ pc[r] = "in_body" /\ mw[r]
        /\ header_name = "X-Correlation-ID"
        /\ call[r].pos = <<"plain", "request">>
        /\ client[r].open
        /\ client[r].xrid = <<" ", "a", " ">>
        /\ state[r].requests_session

\* C7: get_request_id() is None before any binding and once every binding has been
\* reset innermost first; right after set_request_id(v) it is v; right after
\* reset(token) it is what it was just before the set_request_id() that made the
\* token, however the bindings are nested; a read changes nothing.
C7_ContextStore ==
    /\ last.op = "none" => get_request_id(AppFlow) = None
    /\ last.op = "set" => get_request_id(AppFlow) = last.value
    /\ (last.op = "reset" /\ ~last.err) => get_request_id(AppFlow) = last.before
    /\ (last.nested /\ Live = {}) => get_request_id(AppFlow) = None
    /\ last.got # MISSING => last.got = get_request_id(AppFlow)

C7_Witness ==
    /\ Len(tokens) = 2
    /\ tokens[1].tok.old = MISSING /\ ~tokens[1].tok.used
    /\ tokens[2].tok.used
    /\ last.op = "reset" /\ ~last.err
    /\ last.before = <<" ", "a", " ">>
    /\ last.got = <<" ", "a", " ">>

====
